---------------------------- MODULE Spec2Model ----------------------------
(***************************************************************************)
(* A model of manroland-parser (index.js): the row classifier, the header  *)
(* mapper, the field normalizers, the legacy tone-value reconciler, the    *)
(* secondary-colour expander and the stream driver parser(file, cb).       *)
(*                                                                         *)
(* JavaScript values are records [t, s, n, e]: t is the typeof tag         *)
(* ("undefined", "null", "string", "number"), s the text of a string, and  *)
(* n, e the decimal mantissa and the number of fraction digits of a number *)
(* (value = n / 10^e, trailing fraction zeros stripped, so that equal      *)
(* numbers are equal records).  JavaScript strings are TLA+ strings, read  *)
(* character by character with SubSeq.  Objects are functions from         *)
(* property names to values; a missing property reads as undefined.        *)
(***************************************************************************)
EXTENDS Integers, Sequences, FiniteSets, TLC

VARIABLES
    pc,        \* "streaming"; "done", "failed": cb was called with a result or InvalidInput,
               \* with an upstream error; "onDataThrew", "callbackThrew": an exception
               \* escaped onData, pump's callback
    machine,   \* parser: const machine
    meta,      \* parser: const meta = {}
    values,    \* parser: const values = []
    headers,   \* parser: let headers = []
    isData,    \* parser: let isData = false
    row,       \* the row of the latest 'data' event
    nRows,     \* number of 'data' events delivered so far
    cbCalls,   \* the invocations of cb so far, each [err, res]
    call       \* a direct call of one exported function: [fn, args, st, threw, out]

vars == <<pc, machine, meta, values, headers, isData, row, nRows, cbCalls, call>>

---------------------------------------------------------------------------
(* JavaScript values *)

Undefined == [t |-> "undefined", s |-> "", n |-> 0, e |-> 0]

Null == [t |-> "null", s |-> "", n |-> 0, e |-> 0]

Str(x) == [t |-> "string", s |-> x, n |-> 0, e |-> 0]

Num(m, k) == [t |-> "number", s |-> "", n |-> m, e |-> k]

\* ToBoolean on the values of the model
Truthy(v) ==
    CASE v.t = "string" -> v.s # ""
      [] v.t = "number" -> v.n # 0
      [] OTHER -> FALSE

\* obj[key]: a missing property reads as undefined
Get(obj, key) == IF key \in DOMAIN obj THEN obj[key] ELSE Undefined

\* arr[i] with JavaScript's 0-based index: out of range reads as undefined
At(arr, i) == IF i + 1 \in DOMAIN arr THEN arr[i + 1] ELSE Undefined

\* obj[key] = value
Put(obj, key, value) ==
    [k \in DOMAIN obj \cup {key} |-> IF k = key THEN value ELSE obj[k]]

\* delete obj[key]
Delete(obj, key) == [k \in DOMAIN obj \ {key} |-> obj[k]]

\* {}
EmptyObj == [k \in {} |-> Undefined]

---------------------------------------------------------------------------
(* Strings *)

CharAt(s, i) == SubSeq(s, i, i)

Digits == {"0", "1", "2", "3", "4", "5", "6", "7", "8", "9"}

DigitVal(c) ==
    CASE c = "0" -> 0 [] c = "1" -> 1 [] c = "2" -> 2 [] c = "3" -> 3
      [] c = "4" -> 4 [] c = "5" -> 5 [] c = "6" -> 6 [] c = "7" -> 7
      [] c = "8" -> 8 [] c = "9" -> 9

WhiteSpace == {" ", "\t"}

\* index of the first occurrence of the character c in s at or after i, 0 if none
RECURSIVE IndexFrom(_, _, _)
IndexFrom(s, c, i) ==
    IF i > Len(s) THEN 0
    ELSE IF CharAt(s, i) = c THEN i
    ELSE IndexFrom(s, c, i + 1)

RECURSIVE TrimLeft(_)
TrimLeft(s) ==
    IF Len(s) > 0 /\ CharAt(s, 1) \in WhiteSpace THEN TrimLeft(SubSeq(s, 2, Len(s))) ELSE s

RECURSIVE TrimRight(_)
TrimRight(s) ==
    IF Len(s) > 0 /\ CharAt(s, Len(s)) \in WhiteSpace
    THEN TrimRight(SubSeq(s, 1, Len(s) - 1)) ELSE s

\* String.prototype.trim
trim(s) == TrimRight(TrimLeft(s))

\* String.prototype.replace(pattern, replacement) with a one-character string
\* pattern: only the first occurrence is replaced
replace(s, c, by) ==
    LET i == IndexFrom(s, c, 1)
    IN  IF i = 0 THEN s
        ELSE SubSeq(s, 1, i - 1) \o by \o SubSeq(s, i + 1, Len(s))

LowerOf(c) ==
    CASE c = "A" -> "a" [] c = "B" -> "b" [] c = "C" -> "c" [] c = "D" -> "d"
      [] c = "E" -> "e" [] c = "F" -> "f" [] c = "G" -> "g" [] c = "H" -> "h"
      [] c = "I" -> "i" [] c = "J" -> "j" [] c = "K" -> "k" [] c = "L" -> "l"
      [] c = "M" -> "m" [] c = "N" -> "n" [] c = "O" -> "o" [] c = "P" -> "p"
      [] c = "Q" -> "q" [] c = "R" -> "r" [] c = "S" -> "s" [] c = "T" -> "t"
      [] c = "U" -> "u" [] c = "V" -> "v" [] c = "W" -> "w" [] c = "X" -> "x"
      [] c = "Y" -> "y" [] c = "Z" -> "z" [] OTHER -> c

\* String.prototype.toLowerCase
RECURSIVE toLowerCase(_)
toLowerCase(s) ==
    IF Len(s) = 0 THEN "" ELSE LowerOf(CharAt(s, 1)) \o toLowerCase(SubSeq(s, 2, Len(s)))

RECURSIVE AllDigits(_)
AllDigits(s) ==
    Len(s) = 0 \/ (CharAt(s, 1) \in Digits /\ AllDigits(SubSeq(s, 2, Len(s))))

RECURSIVE DigitsValue(_)
DigitsValue(s) ==
    IF Len(s) = 0 THEN 0
    ELSE 10 * DigitsValue(SubSeq(s, 1, Len(s) - 1)) + DigitVal(CharAt(s, Len(s)))

\* a decimal mantissa and fraction length with the trailing fraction zeros stripped
RECURSIVE Normal(_, _)
Normal(m, k) == IF k > 0 /\ m % 10 = 0 THEN Normal(m \div 10, k - 1) ELSE [n |-> m, e |-> k]

\* The unary + of a string (StringToNumber) on the decimal literals
\* [ws] [+-] digits [. digits] [ws], [ws] [+-] . digits [ws], and the blank
\* string, which is 0; everything else is NaN (ok = FALSE).  Exponents, hex
\* literals and Infinity are not read: the strings of the model hold none.
ToNumber(s) ==
    LET t     == trim(s)
        neg   == Len(t) > 0 /\ CharAt(t, 1) = "-"
        body  == IF Len(t) > 0 /\ CharAt(t, 1) \in {"+", "-"} THEN SubSeq(t, 2, Len(t)) ELSE t
        dot   == IndexFrom(body, ".", 1)
        int   == IF dot = 0 THEN body ELSE SubSeq(body, 1, dot - 1)
        frac  == IF dot = 0 THEN "" ELSE SubSeq(body, dot + 1, Len(body))
        abs   == Normal(DigitsValue(int \o frac), Len(frac))
    IN  IF t = "" THEN [ok |-> TRUE, n |-> 0, e |-> 0]
        ELSE IF AllDigits(int) /\ AllDigits(frac) /\ Len(int) + Len(frac) > 0
        THEN [ok |-> TRUE, n |-> IF neg THEN 0 - abs.n ELSE abs.n, e |-> abs.e]
        ELSE [ok |-> FALSE, n |-> 0, e |-> 0]

\* is-number 2.x: typeof number or string, (+num - +num + 1) >= 0 && num !== ''
isNumber(v) ==
    CASE v.t = "number" -> TRUE
      [] v.t = "string" -> ToNumber(v.s).ok /\ v.s # ""
      [] OTHER -> FALSE

\* +value, applied where isNumber(value) holds
Plus(v) == IF v.t = "number" THEN v ELSE Num(ToNumber(v.s).n, ToNumber(v.s).e)

\* the property name a value is converted to when used as a key: obj[value]
PropertyKey(v) ==
    CASE v.t = "string" -> v.s
      [] v.t = "null" -> "null"
      [] v.t = "undefined" -> "undefined"

---------------------------------------------------------------------------
(* const DICTIONARY = freeze(require('./import-dictionary.json')).  A      *)
(* section is the sequence of its entries in declaration order, which is   *)
(* the order Object.keys gives.                                            *)

Err(msg) == [t |-> "error", s |-> msg, n |-> 0, e |-> 0]

DICTIONARY ==
    [meta |-> << [key |-> "jobNo",     manroland |-> "Job No"],
                 [key |-> "paperType", manroland |-> "Paper Type"],
                 [key |-> "sheet",     manroland |-> "Sheet"] >>,
     data |-> << [key |-> "measuringNo", manroland |-> "Protocolled Measuring No"],
                 [key |-> "color",       manroland |-> "ColorName"],
                 [key |-> "pUnitNo",     manroland |-> "Printing Unit No"],
                 [key |-> "zoneNo",      manroland |-> "Zone No"],
                 [key |-> "tonVal20",    manroland |-> "Tone Value 20%"],
                 [key |-> "tonVal40",    manroland |-> "Tone Value 40%"],
                 [key |-> "tonVal50",    manroland |-> "Tone Value 50%"],
                 [key |-> "tonVal80",    manroland |-> "Tone Value 80%"] >>,
     secondary |->
              << [key |-> "CM", act_L |-> [manroland |-> "L-Value T(C+M) - Solid Tone"],
                                act_a |-> [manroland |-> "a-Value T(C+M) - Solid Tone"],
                                act_b |-> [manroland |-> "b-Value T(C+M) - Solid Tone"]],
                 [key |-> "MY", act_L |-> [manroland |-> "L-Value T(M+Y) - Solid Tone"],
                                act_a |-> [manroland |-> "a-Value T(M+Y) - Solid Tone"],
                                act_b |-> [manroland |-> "b-Value T(M+Y) - Solid Tone"]],
                 [key |-> "CY", act_L |-> [manroland |-> "L-Value T(C+Y) - Solid Tone"],
                                act_a |-> [manroland |-> "a-Value T(C+Y) - Solid Tone"],
                                act_b |-> [manroland |-> "b-Value T(C+Y) - Solid Tone"]] >>]

\* const getKeys = memoize((obj) => Object.keys(obj))
getKeys(dict) == [i \in DOMAIN dict |-> dict[i].key]

\* the set of the keys of a dictionary section
KeySet(dict) == {getKeys(dict)[i] : i \in DOMAIN dict}

\* the entry of a dictionary section declared under key
Entry(dict, key) == dict[CHOOSE i \in DOMAIN dict : dict[i].key = key]

---------------------------------------------------------------------------
(* The exported functions *)

\* getKeys(dict).forEach((key) => output[key] = input[dict[key].manroland])
Project(input, dict) ==
    [key \in KeySet(dict) |-> Get(input, Entry(dict, key).manroland)]

\* index of the first decimal digit of s at or after i, 0 if none
RECURSIVE FirstDigit(_, _)
FirstDigit(s, i) ==
    IF i > Len(s) THEN 0
    ELSE IF CharAt(s, i) \in Digits THEN i
    ELSE FirstDigit(s, i + 1)

\* s.match(/\d[F]?/i)[0] where s holds a digit
MatchPaperType(s) ==
    LET i == FirstDigit(s, 1)
    IN  IF i < Len(s) /\ CharAt(s, i + 1) \in {"F", "f"}
        THEN SubSeq(s, i, i + 1) ELSE SubSeq(s, i, i)

\* normalizeMeta throws: match() gives null and null[0] is a TypeError
normalizeMetaThrows(input, dict) ==
    LET output == Project(input, dict)
    IN  /\ Get(output, "paperType").t = "string"
        /\ FirstDigit(Get(output, "paperType").s, 1) = 0

normalizeMeta(input, dict) ==
    LET output == Project(input, dict)
        typed  == IF Get(output, "paperType").t = "string"
                  THEN Put(output, "paperType", Str(MatchPaperType(output["paperType"].s)))
                  ELSE output
    IN  IF Get(typed, "sheet").t = "string"
        THEN Put(typed, "sheet", Str(trim(replace(typed["sheet"].s, "-", ""))))
        ELSE typed

\* normalizeDataRow throws: value.toLowerCase() of a value that is no string
normalizeDataRowThrows(mapped, dict) ==
    \E i \in DOMAIN dict :
        LET value == Get(mapped, dict[i].manroland)
        IN  ~isNumber(value) /\ dict[i].key = "color" /\ value.t # "string"

normalizeDataRow(mapped, dict) ==
    [key \in KeySet(dict) |->
        LET value == Get(mapped, Entry(dict, key).manroland)
        IN  IF isNumber(value) THEN Plus(value)
            ELSE IF key = "color" THEN Str(toLowerCase(value.s))
            ELSE value]

\* correctOldTonval testing the truth of row.tonVal40 instead of comparing it
\* with undefined: a null or zero tonVal40 is then rewritten too
correctOldTonval_Truthy(r) ==
    IF Truthy(Get(r, "tonVal40")) THEN r
    ELSE Delete(Delete(Put(r, "tonVal40", Get(r, "tonVal50")), "tonVal50"), "tonVal20")

correctOldTonval(r) ==
    IF Get(r, "tonVal40") # Undefined THEN r
    ELSE Delete(Delete(Put(r, "tonVal40", Get(r, "tonVal50")), "tonVal50"), "tonVal20")

tryNumber(value) == IF isNumber(value) THEN Plus(value) ELSE value

\* the candidate record of one derived colour
SecondaryCandidate(mapped, entry) ==
    [colorName |-> Str(entry.key),
     color     |-> Str(toLowerCase(entry.key)),
     act_L     |-> tryNumber(Get(mapped, entry.act_L.manroland)),
     act_a     |-> tryNumber(Get(mapped, entry.act_a.manroland)),
     act_b     |-> tryNumber(Get(mapped, entry.act_b.manroland))]

\* the filter testing act_L alone
SecondaryComplete_OnlyL(c) == Truthy(c.act_L)

\* .filter((row) => row.act_L && row.act_a && row.act_b)
SecondaryComplete(c) == Truthy(c.act_L) /\ Truthy(c.act_a) /\ Truthy(c.act_b)

normalizeSecondaryColorRow(mapped, dict) ==
    SelectSeq([i \in DOMAIN dict |-> SecondaryCandidate(mapped, dict[i])], SecondaryComplete)

enhanceSecondaryColorRow(secondaryColorRow, normalizedRow) ==
    Put(Put(Put(secondaryColorRow, "pUnitNo", Get(normalizedRow, "pUnitNo")),
            "measuringNo", Get(normalizedRow, "measuringNo")),
        "zoneNo", Get(normalizedRow, "zoneNo"))

\* index of the first match of /R\d{3}/i in s at or after i, 0 if none
RECURSIVE MachineAt(_, _)
MachineAt(s, i) ==
    IF i + 3 > Len(s) THEN 0
    ELSE IF /\ CharAt(s, i) \in {"R", "r"}
            /\ AllDigits(SubSeq(s, i + 1, i + 3))
    THEN i
    ELSE MachineAt(s, i + 1)

getMachineName(filename) ==
    IF ~Truthy(filename) THEN ""
    ELSE LET i == MachineAt(filename.s, 1)
         IN  IF i = 0 THEN "" ELSE SubSeq(filename.s, i, i + 3)

\* skip without the test of row[1]
skip_FirstCellOnly(r) == At(r, 0) = Str("Raster-Percent :")

skip(r) == At(r, 0) = Str("Raster-Percent :") \/ At(r, 1) = Str("GB")

isSecondaryColorRow(r) == At(r, 1) = Str("T")

isHeaderRow(r) == At(r, 0) = Str("Protocolled Measuring No")

\* row.reduce((obj, value, i) => { obj[headers[i]] = value; return obj }, ...)
RECURSIVE Reduce(_, _, _, _)
Reduce(r, hs, i, obj) ==
    IF i >= Len(r) THEN obj
    ELSE Reduce(r, hs, i + 1, Put(obj, PropertyKey(At(hs, i)), At(r, i)))

mapToHeaders(r, hs) == Reduce(r, hs, 0, EmptyObj)

---------------------------------------------------------------------------
(* The stream driver: parser(file, cb) *)

\* the longest stream of rows explored
MaxRows == 3

\* file.filename || file.path of the streams explored
Files == {Undefined, Str("fooR508bar.csv"), Str("foo-bar.csv")}

HeaderNew ==
    << Str("Protocolled Measuring No"), Str("ColorName"), Str("Zone No"),
       Str("Tone Value 40%"), Str("L-Value T(C+M) - Solid Tone"),
       Str("a-Value T(C+M) - Solid Tone"), Str("b-Value T(C+M) - Solid Tone") >>

HeaderOld ==
    << Str("Protocolled Measuring No"), Str("ColorName"), Str("Zone No"),
       Str("Tone Value 50%"), Str("Tone Value 20%") >>

\* The rows csv-streamify delivers ({ objectMode: true, empty: null }): arrays
\* of strings, an empty field being null.
Rows ==
    { HeaderNew, HeaderOld,
      \* rows of the metadata block
      << Str("Job No"), Str("12-1119") >>,
      << Str("Job No"), Str("13-0537") >>,
      << Str("Paper Type"), Str("4 (bar)") >>,
      << Str("Paper Type"), Str("bar") >>,
      << Str("Sheet"), Str("1 - ") >>,
      \* rows to skip, one of them also a header row
      << Str("Raster-Percent :"), Str("40") >>,
      << Str("3"), Str("GB"), Str("1") >>,
      << Str("Protocolled Measuring No"), Str("GB") >>,
      \* primary colour rows: complete, zero tone value, old schema, empty colour
      \* cell, empty tone value
      << Str("1"), Str("CYN"), Str("2"), Str("40") >>,
      << Str("6"), Str("MGT"), Str("1"), Str("0") >>,
      << Str("2"), Str("BLK"), Str("3"), Str("50"), Str("20") >>,
      << Str("3"), Null, Str("1") >>,
      << Str("5"), Str("Ylo"), Str("1"), Null >>,
      \* secondary colour rows: a complete triple, a triple with a zero
      << Str("1"), Str("T"), Str("2"), Null, Str("50"), Str("1.5"), Str("1.7") >>,
      << Str("1"), Str("T"), Str("2"), Null, Str("50"), Str("0"), Str("1.7") >> }

\* no direct call of an exported function is in progress
NoCall == [fn |-> "none"]

\* The state when parser(file, cb) has returned and the stream is piped.
Init ==
    /\ pc = "streaming"
    /\ \E file \in Files : machine = getMachineName(file)
    /\ meta = EmptyObj
    /\ values = << >>
    /\ headers = << >>
    /\ isData = FALSE
    /\ row = << >>
    /\ nRows = 0
    /\ cbCalls = << >>
    /\ call = NoCall

\* the records a non-skipped row appends to values in the data section
DataRecords(r, hs) ==
    LET mapped     == mapToHeaders(r, hs)
        normalized == correctOldTonval(normalizeDataRow(mapped, DICTIONARY.data))
        secondary  == normalizeSecondaryColorRow(mapped, DICTIONARY.secondary)
    IN  IF isSecondaryColorRow(r)
        THEN [i \in DOMAIN secondary |-> enhanceSecondaryColorRow(secondary[i], normalized)]
        ELSE << normalized >>

\* onData looking for the header row before it looks for rows to skip
onData_HeaderBeforeSkip(r) ==
    IF ~isData /\ isHeaderRow(r) THEN
        /\ headers' = headers \o r
        /\ isData' = TRUE
        /\ UNCHANGED <<pc, meta, values>>
    ELSE IF skip(r) THEN UNCHANGED <<pc, meta, values, headers, isData>>
    ELSE IF isData THEN
        IF normalizeDataRowThrows(mapToHeaders(r, headers), DICTIONARY.data)
        THEN /\ pc' = "onDataThrew"
             /\ UNCHANGED <<meta, values, headers, isData>>
        ELSE /\ values' = values \o DataRecords(r, headers)
             /\ UNCHANGED <<pc, meta, headers, isData>>
    ELSE
        /\ meta' = Put(meta, PropertyKey(At(r, 0)), At(r, 1))
        /\ UNCHANGED <<pc, values, headers, isData>>

\* onData keeping the first value of a metadata label seen twice
onData_FirstMetaWins(r) ==
    IF skip(r) THEN UNCHANGED <<pc, meta, values, headers, isData>>
    ELSE IF isData THEN
        IF normalizeDataRowThrows(mapToHeaders(r, headers), DICTIONARY.data)
        THEN /\ pc' = "onDataThrew"
             /\ UNCHANGED <<meta, values, headers, isData>>
        ELSE /\ values' = values \o DataRecords(r, headers)
             /\ UNCHANGED <<pc, meta, headers, isData>>
    ELSE IF isHeaderRow(r) THEN
        /\ headers' = headers \o r
        /\ isData' = TRUE
        /\ UNCHANGED <<pc, meta, values>>
    ELSE
        /\ meta' = IF PropertyKey(At(r, 0)) \in DOMAIN meta THEN meta
                   ELSE Put(meta, PropertyKey(At(r, 0)), At(r, 1))
        /\ UNCHANGED <<pc, values, headers, isData>>

\* function onData (row), the handler of the tokenizer's 'data' event
onData(r) ==
    IF skip(r) THEN UNCHANGED <<pc, meta, values, headers, isData>>
    ELSE IF isData THEN
        IF normalizeDataRowThrows(mapToHeaders(r, headers), DICTIONARY.data)
        THEN /\ pc' = "onDataThrew"
             /\ UNCHANGED <<meta, values, headers, isData>>
        ELSE /\ values' = values \o DataRecords(r, headers)
             /\ UNCHANGED <<pc, meta, headers, isData>>
    ELSE IF isHeaderRow(r) THEN
        /\ headers' = headers \o r
        /\ isData' = TRUE
        /\ UNCHANGED <<pc, meta, values>>
    ELSE
        /\ meta' = Put(meta, PropertyKey(At(r, 0)), At(r, 1))
        /\ UNCHANGED <<pc, values, headers, isData>>

\* the tokenizer emits 'data' with the next row
OnData(r) ==
    /\ pc = "streaming"
    /\ nRows < MaxRows
    /\ row' = r
    /\ nRows' = nRows + 1
    /\ onData(r)
    /\ UNCHANGED <<machine, cbCalls, call>>

\* Object.assign({ maker, machine }, normalizeMeta(meta, DICTIONARY.meta))
normalizedMetadata ==
    LET normal == normalizeMeta(meta, DICTIONARY.meta)
    IN  [k \in {"maker", "machine"} \cup DOMAIN normal |->
            IF k \in DOMAIN normal THEN normal[k]
            ELSE IF k = "maker" THEN Str("manroland") ELSE Str(machine)]

\* pump's callback without the test of values.length
StreamEnd_NoEmptyCheck ==
    /\ pc = "streaming"
    /\ IF normalizeMetaThrows(meta, DICTIONARY.meta)
       THEN /\ pc' = "callbackThrew"
            /\ UNCHANGED cbCalls
       ELSE /\ cbCalls' = Append(cbCalls,
                   [err |-> Null, res |-> [meta |-> normalizedMetadata, values |-> values]])
            /\ pc' = "done"
    /\ UNCHANGED <<machine, meta, values, headers, isData, row, nRows, call>>

\* pump's callback without an error: the stream has ended
StreamEnd ==
    /\ pc = "streaming"
    /\ IF Len(values) = 0
       THEN /\ cbCalls' = Append(cbCalls, [err |-> Err("InvalidInput"), res |-> Undefined])
            /\ pc' = "done"
       ELSE IF normalizeMetaThrows(meta, DICTIONARY.meta)
       THEN /\ pc' = "callbackThrew"
            /\ UNCHANGED cbCalls
       ELSE /\ cbCalls' = Append(cbCalls,
                   [err |-> Null, res |-> [meta |-> normalizedMetadata, values |-> values]])
            /\ pc' = "done"
    /\ UNCHANGED <<machine, meta, values, headers, isData, row, nRows, call>>

\* pump's callback with an error of the decode/tokenize pipeline
StreamError ==
    /\ pc = "streaming"
    /\ cbCalls' = Append(cbCalls, [err |-> Err("UpstreamError"), res |-> Undefined])
    /\ pc' = "failed"
    /\ UNCHANGED <<machine, meta, values, headers, isData, row, nRows, call>>

Next ==
    \/ \E r \in Rows : OnData(r)
    \/ StreamEnd
    \/ StreamError

Spec == Init /\ [][Next]_vars

---------------------------------------------------------------------------
(* Direct calls of the exported functions, as the unit tests make them:    *)
(* the arguments are drawn in the initial state, one step applies the      *)
(* function.                                                               *)

\* the longest sheet text explored
MaxSheetLen == 4

\* the longest row and header array explored by direct calls of mapToHeaders
MaxCells == 3

\* marks a property the input object does not have
Absent == [t |-> "absent", s |-> "", n |-> 0, e |-> 0]

\* the object with the properties of f that are not Absent
ObjOf(f) == [k \in {x \in DOMAIN f : f[x] # Absent} |-> f[k]]

\* the strings over alphabet of length up to len
RECURSIVE Texts(_, _)
Texts(alphabet, len) ==
    IF len = 0 THEN {""}
    ELSE Texts(alphabet, len - 1)
         \cup {s \o c : s \in Texts(alphabet, len - 1), c \in alphabet}

\* the arrays over cells of length up to len
RECURSIVE Arrays(_, _)
Arrays(cells, len) ==
    IF len = 0 THEN {<< >>}
    ELSE Arrays(cells, len - 1)
         \cup {Append(a, c) : a \in Arrays(cells, len - 1), c \in cells}

SheetTexts == Texts({"1", "-", " "}, MaxSheetLen)

MetaSections ==
    { DICTIONARY.meta,
      << [key |-> "sheet", manroland |-> "Sheet"] >>,
      << [key |-> "paperType", manroland |-> "Paper Type"],
         [key |-> "jobNo", manroland |-> "Job No"] >> }

MetaInputs ==
    { ObjOf(("Sheet" :> a) @@ ("Paper Type" :> b) @@ ("baz" :> c)) :
        a \in {Absent, Null} \cup {Str(x) : x \in SheetTexts},
        b \in {Absent, Str("4 (bar)"), Str("2f"), Str("bar")},
        c \in {Absent, Str("x")} }

DataSections ==
    { DICTIONARY.data,
      << [key |-> "color", manroland |-> "ColorName"],
         [key |-> "measuringUnit", manroland |-> "Measuring Unit"],
         [key |-> "foo", manroland |-> "Foo"] >>,
      << [key |-> "tonVal40", manroland |-> "Tone Value 40%"] >> }

DataInputs ==
    { ObjOf(("ColorName" :> a) @@ ("Measuring Unit" :> b) @@ ("Tone Value 40%" :> c)
            @@ ("Foo" :> d) @@ ("baz" :> f)) :
        a \in {Absent, Null, Str("BLK"), Str("7")},
        b \in {Absent, Null, Str("1"), Num(1, 0)},
        c \in {Absent, Null, Str("0"), Str("40.50"), Str(" ")},
        d \in {Absent, Str("Bar")},
        f \in {Absent, Str("x")} }

SecondarySections ==
    { DICTIONARY.secondary,
      << DICTIONARY.secondary[3], DICTIONARY.secondary[1] >> }

\* the cells of a colour's L, a and b columns
TripleCells ==
    { Absent, Null, Str(""), Str(" "), Str("0"), Str("0.0"), Str("-0"),
      Str("1.5"), Str("abc"), Num(0, 0), Num(2, 0) }

SecondaryInputs ==
    { ObjOf(("L-Value T(C+M) - Solid Tone" :> l) @@ ("a-Value T(C+M) - Solid Tone" :> a)
            @@ ("b-Value T(C+M) - Solid Tone" :> b)
            @@ ("L-Value T(M+Y) - Solid Tone" :> m) @@ ("a-Value T(M+Y) - Solid Tone" :> m)
            @@ ("b-Value T(M+Y) - Solid Tone" :> m)
            @@ ("L-Value T(C+Y) - Solid Tone" :> y) @@ ("a-Value T(C+Y) - Solid Tone" :> Str("3"))
            @@ ("b-Value T(C+Y) - Solid Tone" :> Str("-3"))) :
        l \in TripleCells, a \in TripleCells, b \in TripleCells,
        m \in {Absent, Num(2, 0), Str("0")},
        y \in {Absent, Str("3")} }

RowArrays == Arrays({Str("1"), Str("x"), Null}, MaxCells)

HeaderArrays == Arrays({Str("foo"), Str("bar"), Null}, MaxCells)

Ready(fn, args) == [fn |-> fn, args |-> args, st |-> "ready", threw |-> FALSE, out |-> Undefined]

Returned(out) == [call EXCEPT !.st = "done", !.out = out]

Thrown == [call EXCEPT !.st = "done", !.threw = TRUE]

InitFn ==
    /\ pc = "idle"
    /\ machine = ""
    /\ meta = EmptyObj
    /\ values = << >>
    /\ headers = << >>
    /\ isData = FALSE
    /\ row = << >>
    /\ nRows = 0
    /\ cbCalls = << >>
    /\ \/ \E i \in DataInputs, d \in DataSections :
             call = Ready("normalizeDataRow", [row |-> i, dict |-> d])
       \/ \E i \in MetaInputs, d \in MetaSections :
             call = Ready("normalizeMeta", [input |-> i, dict |-> d])
       \/ \E i \in SecondaryInputs, d \in SecondarySections :
             call = Ready("normalizeSecondaryColorRow", [row |-> i, dict |-> d])
       \/ \E r \in RowArrays, h \in HeaderArrays :
             call = Ready("mapToHeaders", [row |-> r, headers |-> h])

Driver == <<pc, machine, meta, values, headers, isData, row, nRows, cbCalls>>

CallNormalizeMeta ==
    /\ call.fn = "normalizeMeta" /\ call.st = "ready"
    /\ call' = IF normalizeMetaThrows(call.args.input, call.args.dict) THEN Thrown
               ELSE Returned(normalizeMeta(call.args.input, call.args.dict))
    /\ UNCHANGED Driver

CallNormalizeDataRow ==
    /\ call.fn = "normalizeDataRow" /\ call.st = "ready"
    /\ call' = IF normalizeDataRowThrows(call.args.row, call.args.dict) THEN Thrown
               ELSE Returned(normalizeDataRow(call.args.row, call.args.dict))
    /\ UNCHANGED Driver

CallNormalizeSecondaryColorRow ==
    /\ call.fn = "normalizeSecondaryColorRow" /\ call.st = "ready"
    /\ call' = Returned(normalizeSecondaryColorRow(call.args.row, call.args.dict))
    /\ UNCHANGED Driver

CallMapToHeaders ==
    /\ call.fn = "mapToHeaders" /\ call.st = "ready"
    /\ call' = Returned(mapToHeaders(call.args.row, call.args.headers))
    /\ UNCHANGED Driver

NextFn ==
    \/ CallNormalizeMeta
    \/ CallNormalizeDataRow
    \/ CallNormalizeSecondaryColorRow
    \/ CallMapToHeaders

SpecFn == InitFn /\ [][NextFn]_vars

---------------------------------------------------------------------------
(* Properties of the stream driver, checked under Spec *)

\* the latest step delivered a row to onData
Delivered == nRows' = nRows + 1

\* the row is one to skip: its first cell is the raster-percent label or its
\* second cell is GB
Skipped(r) ==
    \/ (Len(r) >= 1 /\ r[1].t = "string" /\ r[1].s = "Raster-Percent :")
    \/ (Len(r) >= 2 /\ r[2].t = "string" /\ r[2].s = "GB")

\* the first cell of the row is the header label
HeaderLabelled(r) ==
    Len(r) >= 1 /\ r[1].t = "string" /\ r[1].s = "Protocolled Measuring No"

\* the second cell of the row is the secondary colour mark
SecondaryMarked(r) == Len(r) >= 2 /\ r[2].t = "string" /\ r[2].s = "T"

\* C1: once the stream has ended, failed or stopped, cb has been invoked
\* exactly once, either with an error and no result or with no error and a
\* result {meta, values}; it is never invoked twice.
C1_CallbackExactlyOnce ==
    /\ Len(cbCalls) <= 1
    /\ pc # "streaming" => Len(cbCalls) = 1
    /\ \A i \in DOMAIN cbCalls :
          \/ cbCalls[i].err # Null /\ cbCalls[i].res = Undefined
          \/ cbCalls[i].err = Null /\ DOMAIN cbCalls[i].res = {"meta", "values"}

\* C2: when the stream has ended without an upstream error, the parse has
\* failed with InvalidInput if and only if values is empty, and every result
\* delivered without an error has a non-empty values sequence.
C2_InvalidInputIffEmpty ==
    /\ pc \in {"done", "callbackThrew"} =>
          ((cbCalls = << [err |-> Err("InvalidInput"), res |-> Undefined] >>)
              <=> (Len(values) = 0))
    /\ \A i \in DOMAIN cbCalls :
          cbCalls[i].err = Null => Len(cbCalls[i].res.values) > 0

\* C2's case: the stream ended with metadata and a header row but no record,
\* and the parse failed with InvalidInput.
C2_Witness ==
    /\ pc = "done"
    /\ isData
    /\ DOMAIN meta # {}
    /\ cbCalls = << [err |-> Err("InvalidInput"), res |-> Undefined] >>

\* C3: in the data section a non-skipped row that is no secondary-colour row
\* appends exactly one record to values, a non-skipped secondary-colour row
\* appends one record per derived colour with a truthy triple, and the
\* records already in values stay as they are.
C3_EveryDataRowAppends ==
    [][(Delivered /\ isData /\ ~Skipped(row')) =>
          /\ SubSeq(values', 1, Len(values)) = values
          /\ Len(values') = Len(values) +
                (IF SecondaryMarked(row')
                 THEN Len(normalizeSecondaryColorRow(mapToHeaders(row', headers),
                                                     DICTIONARY.secondary))
                 ELSE 1)]_vars

\* C4: the record a primary row appends is its normalized row unchanged when
\* that has a defined tonVal40 (null and 0 included); otherwise its tonVal40
\* is the normalized row's tonVal50, it has no tonVal50 and no tonVal20 key,
\* and every other field is the normalized row's.
C4_PrimaryRecordsReconciled ==
    [][(Delivered /\ isData /\ ~Skipped(row') /\ ~SecondaryMarked(row')
            /\ Len(values') > Len(values)) =>
          LET n   == normalizeDataRow(mapToHeaders(row', headers), DICTIONARY.data)
              rec == values'[Len(values')]
              old == {"tonVal40", "tonVal50", "tonVal20"}
          IN  IF "tonVal40" \in DOMAIN n /\ n["tonVal40"].t # "undefined"
              THEN rec = n
              ELSE /\ "tonVal40" \in DOMAIN rec
                   /\ rec["tonVal40"] = Get(n, "tonVal50")
                   /\ "tonVal50" \notin DOMAIN rec
                   /\ "tonVal20" \notin DOMAIN rec
                   /\ DOMAIN rec \ old = DOMAIN n \ old
                   /\ \A k \in DOMAIN n \ old : rec[k] = n[k]]_vars

\* C4's case: values holds a record rewritten from the old schema, its
\* tonVal40 taken from the 50% column and its tonVal50 and tonVal20 gone.
C4_Witness ==
    \E i \in DOMAIN values :
        /\ DOMAIN values[i] = KeySet(DICTIONARY.data) \ {"tonVal50", "tonVal20"}
        /\ values[i]["tonVal40"] = Num(50, 0)
        /\ values[i]["color"] = Str("blk")

\* C8: a row to skip leaves the metadata accumulator, the header sequence,
\* the values buffer and the data-section flag as they were, before and
\* after the header row.
C8_SkippedRowChangesNothing ==
    [][(Delivered /\ Skipped(row')) => UNCHANGED <<meta, headers, values, isData>>]_vars

\* C8's case: after metadata rows, a row to skip that is also labelled as
\* header was delivered, and the driver is still before the header.
C8_Witness ==
    /\ nRows > 1
    /\ DOMAIN meta # {}
    /\ Skipped(row)
    /\ HeaderLabelled(row)
    /\ ~isData

\* C10: the driver starts before the header; it enters the data section on
\* exactly the non-skipped rows labelled as header that arrive before it,
\* never leaves it, and appends no record to values before it.
C10_HeaderTransition ==
    /\ ~isData
    /\ [][/\ isData => isData'
          /\ (~isData /\ isData') => (Delivered /\ ~Skipped(row') /\ HeaderLabelled(row'))
          /\ (~isData /\ Delivered /\ ~Skipped(row') /\ HeaderLabelled(row')) => isData'
          /\ ~isData => values' = << >>]_vars

\* C10's case: the header row arrived after a metadata row and a data row
\* followed it.
C10_Witness ==
    /\ isData
    /\ DOMAIN meta # {}
    /\ Len(values) > 0
    /\ ~HeaderLabelled(row)

\* C11: every non-skipped row labelled as header, the first and the later
\* ones alike, is consumed as a header fragment: its cells are appended to
\* the header sequence, in encounter order, and it appends no record to
\* values; the header sequence changes in no other way.
C11_HeaderFragmentsAppended ==
    [][/\ (Delivered /\ ~Skipped(row') /\ HeaderLabelled(row')) =>
             (headers' = headers \o row' /\ values' = values)
       /\ ~(Delivered /\ ~Skipped(row') /\ HeaderLabelled(row')) =>
             headers' = headers]_vars

\* the property name the first cell of the row becomes
LabelOf(r) ==
    IF Len(r) = 0 THEN "undefined"
    ELSE IF r[1].t = "null" THEN "null"
    ELSE r[1].s

\* the second cell of the row, undefined when it has none
ValueOf(r) == IF Len(r) >= 2 THEN r[2] ELSE Undefined

\* C12: the metadata accumulator starts empty; a non-skipped row that is not
\* labelled as header and arrives before the header row sets the entry of
\* its first cell to its second cell, overwriting an earlier one and leaving
\* the others; no other row, and no row of the data section, adds, removes
\* or changes an entry.
C12_MetaFromPreHeaderRows ==
    /\ DOMAIN meta = {}
    /\ [][IF Delivered /\ ~isData /\ ~Skipped(row') /\ ~HeaderLabelled(row')
          THEN /\ DOMAIN meta' = DOMAIN meta \cup {LabelOf(row')}
               /\ meta'[LabelOf(row')] = ValueOf(row')
               /\ \A k \in DOMAIN meta \ {LabelOf(row')} : meta'[k] = meta[k]
          ELSE meta' = meta]_vars

\* C12's case: a Job No row was recorded before the header row (a second Job
\* No row may have overwritten the first), and the header row left the entry.
C12_Witness ==
    /\ nRows = 3
    /\ isData
    /\ HeaderLabelled(row)
    /\ headers = row
    /\ meta = [k \in {"Job No"} |-> Str("13-0537")]

---------------------------------------------------------------------------
(* Properties of the exported functions, checked under SpecFn *)

\* the call of fn has been made
Done(fn) == call.fn = fn /\ call.st = "done"

\* C5: normalizeMeta(I, D) and normalizeDataRow(I, D) return a record whose
\* key set is exactly the key set of D, whichever keys I has.
C5_KeySetIsDictKeys ==
    (Done("normalizeMeta") \/ Done("normalizeDataRow")) =>
        /\ ~call.threw
        /\ DOMAIN call.out = {call.args.dict[i].key : i \in DOMAIN call.args.dict}

\* the texts that are empty, blank or read as the number zero
ZeroTexts == {"", " ", "0", "0.0", "-0"}

\* a cell that is present and not zero: a number other than 0, or a string
\* that is neither empty nor blank nor a zero
NonZeroCell(v) ==
    \/ v.t = "number" /\ v.n # 0
    \/ v.t = "string" /\ v.s \notin ZeroTexts

\* the lower-cased forms of the derived colour codes
LowerCode == ("CM" :> "cm") @@ ("MY" :> "my") @@ ("CY" :> "cy")

\* C6: normalizeSecondaryColorRow returns, in the dictionary's declaration
\* order, one record per derived colour whose three source columns are all
\* present and non-zero; colorName is the key as declared and color its
\* lower-cased form; no record has an act_L, act_a or act_b that is zero,
\* null, empty or undefined.
C6_OnlyCompleteTriples ==
    Done("normalizeSecondaryColorRow") =>
        LET dict == call.args.dict
            r    == call.args.row
            out  == call.out
            Complete(entry) ==
                /\ NonZeroCell(Get(r, entry.act_L.manroland))
                /\ NonZeroCell(Get(r, entry.act_a.manroland))
                /\ NonZeroCell(Get(r, entry.act_b.manroland))
            CompleteAt(i) == Complete(dict[i])
            kept == SelectSeq([i \in DOMAIN dict |-> i], CompleteAt)
        IN  /\ Len(out) = Len(kept)
            /\ \A i \in DOMAIN out :
                  /\ out[i].colorName = Str(dict[kept[i]].key)
                  /\ out[i].color = Str(LowerCode[dict[kept[i]].key])
                  /\ \A f \in {"act_L", "act_a", "act_b"} :
                        /\ out[i][f] \notin {Undefined, Null, Str(""), Num(0, 0)}
                        /\ out[i][f].t = "number" => out[i][f].n # 0
                        /\ out[i][f].t = "string" => out[i][f].s \notin ZeroTexts

\* C6's case: the row has a colour with a complete triple, which is emitted,
\* and a colour with the string 0 in its triple, which is not.
C6_Witness ==
    /\ Done("normalizeSecondaryColorRow")
    /\ Len(call.args.dict) = 3
    /\ Get(call.args.row, "a-Value T(C+M) - Solid Tone") = Str("0")
    /\ Get(call.args.row, "L-Value T(C+M) - Solid Tone") = Str("1.5")
    /\ Len(call.out) = 2
    /\ call.out[1].colorName = Str("MY")
    /\ call.out[2].color = Str("cy")

\* the smaller of two numbers
Min(a, b) == IF a < b THEN a ELSE b

\* C7: mapToHeaders(row, headers) returns exactly the mapping
\* headers[i] -> row[i] for i < min(len(row), len(headers)): the values of a
\* longer row are bound to no key, the trailing headers of a shorter row get
\* no entry.  (Of two equal headers the later binds.)
C7_ZipUpToShorter ==
    Done("mapToHeaders") =>
        LET r    == call.args.row
            hs   == call.args.headers
            m    == Min(Len(r), Len(hs))
            Name(i) == IF hs[i].t = "null" THEN "null" ELSE hs[i].s
            Last(k) == CHOOSE i \in 1..m : Name(i) = k /\ \A j \in (i + 1)..m : Name(j) # k
        IN  /\ DOMAIN call.out = {Name(i) : i \in 1..m}
            /\ \A k \in DOMAIN call.out : k \in {Name(i) : i \in 1..m} => call.out[k] = r[Last(k)]

\* has leading or trailing white space
Padded(s) == Len(s) > 0 /\ (CharAt(s, 1) \in WhiteSpace \/ CharAt(s, Len(s)) \in WhiteSpace)

\* C9: for every string value of the metadata field sheet, the normalized
\* sheet contains no hyphen and has no leading or trailing white space.
C9_SheetHasNoHyphen ==
    (/\ Done("normalizeMeta")
     /\ ~call.threw
     /\ "sheet" \in DOMAIN call.out
     /\ Get(call.args.input, "Sheet").t = "string") =>
        /\ call.out["sheet"].t = "string"
        /\ IndexFrom(call.out["sheet"].s, "-", 1) = 0
        /\ ~Padded(call.out["sheet"].s)

===========================================================================
